---- MODULE Spec2Model ----
(***************************************************************************)
(* The game list of src/network/network_gamelist.cpp: the lock-free stack  *)
(* of delayed insertions (_network_game_delayed_insertion_list), the       *)
(* linked list of known servers (_network_game_list), the requery          *)
(* scheduler (NetworkGameListRequery) and the NewGRF reconciliation        *)
(* (NetworkAfterNewGRFScan).                                               *)
(*                                                                         *)
(* Two kinds of thread exist.  Producers call                              *)
(* NetworkGameListAddItemDelayed; a single owning thread calls everything  *)
(* else.  The only variable both kinds touch is the atomic head of the     *)
(* delayed insertion list, so a step of the model is one access to that    *)
(* head (a load or a compare-and-swap) together with the thread-private    *)
(* code that follows it up to the next access.  A spurious failure of      *)
(* compare_exchange_weak leaves the head and the expected value as they    *)
(* were: it is a stuttering step.                                          *)
(***************************************************************************)
EXTENDS Integers, Sequences, FiniteSets, TLC

(***************************************************************************)
(* Bounds of the model.                                                    *)
(***************************************************************************)
NumProducers == 3   \* calls of NetworkGameListAddItemDelayed, one record each
MaxGrfs == 2        \* longest NewGRF list a server reports
MaxLoops == 2       \* game loops run where a specification bounds them

(***************************************************************************)
(* Program constants.                                                      *)
(***************************************************************************)
MAX_GAME_LIST_REQUERY_COUNT == 10
REQUERY_EVERY_X_GAMELOOPS == 60
REFRESH_GAMEINFO_X_REQUERIES == 50
NETWORK_DEFAULT_PORT == "3979"

Null == 0                       \* nullptr
RecIds == 1..NumProducers       \* the records producers allocate
Hosts == {"10.0.0.1", "10.0.0.2"}
NoPort == ""
Ports == {NoPort, NETWORK_DEFAULT_PORT}
ConnStrings == [host : Hosts, port : Ports]
NoName == ""

VARIABLES
    head,         \* _network_game_delayed_insertion_list: Null or a record
    inext,        \* item->next of every record
    payload,      \* connection_string, info.server_name, manually of every record
    ppc,          \* position of each producer call: "idle", "cas", "done"
    opc,          \* position of the owning thread: "idle", "load", "cas"
    otail,        \* TRUE while the drain runs inside NetworkGameListRequery
    ins_item,     \* ins_item of NetworkGameListHandleDelayedInsert
    list,         \* _network_game_list, in link order
    requery_cnt,  \* the static requery_cnt of NetworkGameListRequery
    catalog,      \* the (grfid, md5sum) pairs FindGRFConfig finds
    unknown_grfs, \* the pairs FindUnknownGRFName has been asked to remember
    merges,       \* history: how often each record went through the merge
    freed,        \* history: the records deleted by the drain
    dlog,         \* history: the running or last drain
    notes,        \* history: notifications raised by the running or last owner call
    queried,      \* history: connection strings queried by the last requery window
    last,         \* history: the last call of the owning thread
    removed,      \* history: the connection strings of removed entries that carried state
    stale         \* the pointer a caller still holds to the first entry deleted

vars == <<head, inext, payload, ppc, opc, otail, ins_item, list, requery_cnt,
          catalog, unknown_grfs, merges, freed, dlog, notes, queried, last, removed,
          stale>>

queueVars == <<head, inext, payload, ppc, ins_item, otail, merges, freed, dlog>>

(***************************************************************************)
(* Sequences.                                                              *)
(***************************************************************************)
RemoveAt(s, i) == [j \in 1..(Len(s) - 1) |-> IF j < i THEN s[j] ELSE s[j + 1]]
Min(a, b) == IF a < b THEN a ELSE b

(***************************************************************************)
(* Connection strings.  ParseConnectionString(s, NETWORK_DEFAULT_PORT)     *)
(* followed by GetAddressAsString(false) puts the default port on a string *)
(* that names none.                                                        *)
(***************************************************************************)
ParseConnectionString(cs) ==
    [host |-> cs.host,
     port |-> IF cs.port = NoPort THEN NETWORK_DEFAULT_PORT ELSE cs.port]

(***************************************************************************)
(* NewGRF descriptors and the local catalog.                               *)
(***************************************************************************)
GrfIds == {1}
Md5Sums == {"X", "Y"}
GrfIdents == [grfid : GrfIds, md5sum : Md5Sums]
NoText == <<>>

\* The GRFConfig that FindGRFConfig(grfid, FGCM_EXACT, md5sum) returns when
\* the catalog holds the pair.
CatalogFile(id) ==
    [filename |-> <<"file", id.grfid, id.md5sum>>,
     name     |-> <<"name", id.grfid, id.md5sum>>,
     info     |-> <<"info", id.grfid, id.md5sum>>]

\* FindGRFConfig(grfid, FGCM_EXACT, md5sum) # nullptr
FindGRFConfig(cat, id) == id \in cat

\* The name FindUnknownGRFName(grfid, md5sum, true) returns: the entry of the
\* unknown-GRF name table for the pair, created when missing.
FindUnknownGRFName(id) == <<"unknown", id.grfid, id.md5sum>>

\* A descriptor as the query-response path leaves it.
ReportedGrf(id, st) ==
    [ident |-> id, status |-> st, name |-> NoText, filename |-> NoText, info |-> NoText]

(***************************************************************************)
(* Entries of the game list.  win, quiet and never_online are history:     *)
(* the requery windows fired since the entry was made (modulo the refresh  *)
(* period), the windows fired in a row without a query to it, and whether  *)
(* it has been offline at every window so far.                             *)
(***************************************************************************)
\* NetworkGameInfo info = {}
EmptyInfo ==
    [server_name |-> NoName, grfconfig |-> <<>>,
     version_compatible |-> FALSE, compatible |-> FALSE]

\* new NetworkGameList(resolved_connection_string)
NewNetworkGameList(key) ==
    [connection_string |-> key, info |-> EmptyInfo, online |-> FALSE,
     manually |-> FALSE, retries |-> 0,
     win |-> 0, quiet |-> 0, never_online |-> TRUE]

Keys(l) == {l[i].connection_string : i \in 1..Len(l)}

\* The loop of NetworkGameListAddItem: the position of the first entry whose
\* connection_string equals the resolved string, 0 when the loop runs off the end.
FindItem(l, key) ==
    IF \E i \in 1..Len(l) : l[i].connection_string = key
    THEN CHOOSE i \in 1..Len(l) :
            /\ l[i].connection_string = key
            /\ \A j \in 1..(i - 1) : l[j].connection_string # key
    ELSE 0

\* An add that compares the entries with the string as given, not as resolved.
AddItemCompareUnresolved(l, cs) ==
    LET key == ParseConnectionString(cs)
        at  == FindItem(l, cs)
    IN  IF at # 0
        THEN [list |-> l, item |-> at, created |-> FALSE]
        ELSE [list |-> Append(l, NewNetworkGameList(key)),
              item |-> Len(l) + 1, created |-> TRUE]

\* An add that calls UpdateNetworkGameWindow on every path.
AddItemNotifyAlways(l, cs) ==
    LET key == ParseConnectionString(cs)
        at  == FindItem(l, key)
    IN  IF at # 0
        THEN [list |-> l, item |-> at, created |-> TRUE]
        ELSE [list |-> Append(l, NewNetworkGameList(key)),
              item |-> Len(l) + 1, created |-> TRUE]

\* NetworkGameListAddItem: the list afterwards, the position of the returned
\* item, and whether UpdateNetworkGameWindow was called.
NetworkGameListAddItem(l, cs) ==
    LET key == ParseConnectionString(cs)
        at  == FindItem(l, key)
    IN  IF at # 0
        THEN [list |-> l, item |-> at, created |-> FALSE]
        ELSE [list |-> Append(l, NewNetworkGameList(key)),
              item |-> Len(l) + 1, created |-> TRUE]

\* A merge that takes the record's name whether the item has one or not.
MergeAlwaysRename(item, ins) ==
    [item EXCEPT !.info = [EmptyInfo EXCEPT !.server_name = ins.server_name],
                 !.online = FALSE,
                 !.manually = item.manually \/ ins.manually]

\* A merge that assigns the record's manually instead of or-ing it in.
MergeAssignManually(item, ins) ==
    LET named == IF item.info.server_name = NoName
                 THEN [item EXCEPT !.info = [EmptyInfo EXCEPT !.server_name = ins.server_name],
                                   !.online = FALSE]
                 ELSE item
    IN  [named EXCEPT !.manually = ins.manually]

\* Lines 50-56 of NetworkGameListHandleDelayedInsert on the item found.
MergeInto(item, ins) ==
    LET named == IF item.info.server_name = NoName
                 THEN [item EXCEPT !.info = [EmptyInfo EXCEPT !.server_name = ins.server_name],
                                   !.online = FALSE]
                 ELSE item
    IN  [named EXCEPT !.manually = item.manually \/ ins.manually]

\* Lines 47-59 of NetworkGameListHandleDelayedInsert for one popped record:
\* the list afterwards and the notifications raised.
InsertDelayed(l, ins) ==
    LET added == NetworkGameListAddItem(l, ins.connection_string)
        item  == MergeInto(added.list[added.item], ins)
    IN  [list |-> [added.list EXCEPT ![added.item] = item],
         item |-> added.item,
         ui   |-> (IF added.created THEN 1 ELSE 0) + 1,
         host |-> IF item.manually THEN 1 ELSE 0]

(***************************************************************************)
(* The storage of deleted entries.  An entry is identified by the address  *)
(* of its storage (line 104), and delete gives the storage back: a caller  *)
(* that kept the pointer to a deleted entry holds a dangling pointer, and  *)
(* a later new may place another entry at that address.  stale follows the *)
(* pointer to the first entry deleted: held says that the entry has been   *)
(* deleted, at holds the connection string of the entry that now lies at   *)
(* the address, and is empty while no entry of the list does.              *)
(***************************************************************************)
NoStale == [held |-> FALSE, at |-> {}]

\* new NetworkGameList (line 83): what stale can be after a call of
\* NetworkGameListAddItem that made the entry key (created) or made none.
Allocations(created, key) ==
    IF created /\ stale.held /\ stale.at = {}
    THEN {stale, [stale EXCEPT !.at = {key}]}
    ELSE {stale}

\* delete remove (line 113) of the entry key.
Deleted(key) ==
    IF stale.held THEN [stale EXCEPT !.at = @ \ {key}] ELSE [held |-> TRUE, at |-> {}]

(***************************************************************************)
(* The delayed insertion list.                                             *)
(***************************************************************************)
RECURSIVE Chain(_, _, _)
\* The records reachable from h over next, looking at most n links far.
Chain(h, nx, n) ==
    IF h = Null \/ n = 0 THEN {} ELSE {h} \cup Chain(nx[h], nx, n - 1)

Pending == Chain(head, inext, NumProducers)

NoNotes == [ui |-> 0, host |-> 0, inval |-> 0]
NoConn == [host |-> "", port |-> NoPort]
NoCall == [op |-> "none", cs |-> NoConn, item |-> 0, changed |-> FALSE, again |-> FALSE]
NoDrain == [start |-> {}, got |-> {}, n |-> 0, done |-> TRUE, seen |-> {}]
Pushed == {p \in RecIds : ppc[p] = "done"}

\* NetworkGameListAddItemDelayed, line 35: item->next = head.load()
PushLoad(p) ==
    /\ ppc[p] = "idle"
    /\ inext' = [inext EXCEPT ![p] = head]
    /\ ppc' = [ppc EXCEPT ![p] = "cas"]
    /\ UNCHANGED <<head, payload, opc, otail, ins_item, list, requery_cnt, catalog,
                   unknown_grfs, merges, freed, dlog, notes, queried, last, removed, stale>>

\* A push that stores the item without comparing the head with item->next.
PushStore(p) ==
    /\ ppc[p] = "cas"
    /\ head' = p
    /\ ppc' = [ppc EXCEPT ![p] = "done"]
    /\ UNCHANGED <<inext, payload, opc, otail, ins_item, list, requery_cnt, catalog,
                   unknown_grfs, merges, freed, dlog, notes, queried, last, removed, stale>>

\* A compare-and-swap that leaves item->next as it was when it fails.
PushCASKeepExpected(p) ==
    /\ ppc[p] = "cas"
    /\ IF head = inext[p]
       THEN /\ head' = p
            /\ ppc' = [ppc EXCEPT ![p] = "done"]
       ELSE UNCHANGED <<head, ppc>>
    /\ UNCHANGED <<inext, payload, opc, otail, ins_item, list, requery_cnt, catalog,
                   unknown_grfs, merges, freed, dlog, notes, queried, last, removed, stale>>

\* NetworkGameListAddItemDelayed, line 36: one compare_exchange_weak(item->next, item)
PushCAS(p) ==
    /\ ppc[p] = "cas"
    /\ IF head = inext[p]
       THEN /\ head' = p
            /\ ppc' = [ppc EXCEPT ![p] = "done"]
            /\ UNCHANGED inext
       ELSE /\ inext' = [inext EXCEPT ![p] = head]
            /\ UNCHANGED <<head, ppc>>
    /\ UNCHANGED <<payload, opc, otail, ins_item, list, requery_cnt, catalog,
                   unknown_grfs, merges, freed, dlog, notes, queried, last, removed, stale>>

(***************************************************************************)
(* NetworkGameListRequery after the drain, lines 133-146.                  *)
(***************************************************************************)
\* A loop body without the full refresh: online entries and entries past the
\* requery count are always skipped.
RequeryItemNoRefresh(item) ==
    LET r    == (item.retries + 1) % 256
        skip == item.online \/ r >= MAX_GAME_LIST_REQUERY_COUNT
        w    == (item.win + 1) % REFRESH_GAMEINFO_X_REQUERIES
    IN  IF skip
        THEN [item |-> [item EXCEPT !.retries = r, !.win = w,
                                    !.quiet = Min(item.quiet + 1, REFRESH_GAMEINFO_X_REQUERIES)],
              query |-> FALSE]
        ELSE [item |-> [item EXCEPT !.retries = IF r >= REFRESH_GAMEINFO_X_REQUERIES THEN 0 ELSE r,
                                    !.win = w, !.quiet = 0],
              query |-> TRUE]

\* A loop body that skips an online item before it counts the window.
RequeryItemSkipOnline(item) ==
    LET r    == IF item.online THEN item.retries ELSE (item.retries + 1) % 256
        skip == r < REFRESH_GAMEINFO_X_REQUERIES
                /\ (item.online \/ r >= MAX_GAME_LIST_REQUERY_COUNT)
        w    == (item.win + 1) % REFRESH_GAMEINFO_X_REQUERIES
    IN  IF skip
        THEN [item |-> [item EXCEPT !.retries = r, !.win = w,
                                    !.quiet = Min(item.quiet + 1, REFRESH_GAMEINFO_X_REQUERIES)],
              query |-> FALSE]
        ELSE [item |-> [item EXCEPT !.retries = IF r >= REFRESH_GAMEINFO_X_REQUERIES THEN 0 ELSE r,
                                    !.win = w, !.quiet = 0],
              query |-> TRUE]

\* A loop body that writes the saved retries back after every query.
RequeryItemKeepRetries(item) ==
    LET r    == (item.retries + 1) % 256
        skip == r < REFRESH_GAMEINFO_X_REQUERIES
                /\ (item.online \/ r >= MAX_GAME_LIST_REQUERY_COUNT)
        w    == (item.win + 1) % REFRESH_GAMEINFO_X_REQUERIES
    IN  IF skip
        THEN [item |-> [item EXCEPT !.retries = r, !.win = w,
                                    !.quiet = Min(item.quiet + 1, REFRESH_GAMEINFO_X_REQUERIES)],
              query |-> FALSE]
        ELSE [item |-> [item EXCEPT !.retries = r, !.win = w, !.quiet = 0],
              query |-> TRUE]

\* The body of the loop for one item: the item afterwards and whether
\* NetworkUDPQueryServer was called for it.  retries is a uint8.
RequeryItem(item) ==
    LET r    == (item.retries + 1) % 256
        skip == r < REFRESH_GAMEINFO_X_REQUERIES
                /\ (item.online \/ r >= MAX_GAME_LIST_REQUERY_COUNT)
        w    == (item.win + 1) % REFRESH_GAMEINFO_X_REQUERIES
    IN  IF skip
        THEN [item |-> [item EXCEPT !.retries = r, !.win = w,
                                    !.quiet = Min(item.quiet + 1, REFRESH_GAMEINFO_X_REQUERIES)],
              query |-> FALSE]
        ELSE [item |-> [item EXCEPT !.retries = IF r >= REFRESH_GAMEINFO_X_REQUERIES THEN 0 ELSE r,
                                    !.win = w, !.quiet = 0],
              query |-> TRUE]

\* ++requery_cnt on a uint8
NextRequeryCnt == (requery_cnt + 1) % 256
\* A window that fires one call early.
WindowFiresEarly == NextRequeryCnt >= REQUERY_EVERY_X_GAMELOOPS - 1
\* Line 135: the call goes on to the loop.
WindowFires == NextRequeryCnt >= REQUERY_EVERY_X_GAMELOOPS

RequeryTail ==
    IF WindowFires
    THEN /\ requery_cnt' = 0
         /\ list' = [i \in 1..Len(list) |-> RequeryItem(list[i]).item]
         /\ queried' = {list[i].connection_string :
                           i \in {j \in 1..Len(list) : RequeryItem(list[j]).query}}
    ELSE /\ requery_cnt' = NextRequeryCnt
         /\ queried' = {}
         /\ UNCHANGED list

(***************************************************************************)
(* NetworkGameListHandleDelayedInsert, called on its own (tail = FALSE) or *)
(* as the first statement of NetworkGameListRequery (tail = TRUE).         *)
(***************************************************************************)
\* Line 45, the break on a null ins_item, and what follows the return.
DrainReturn(tail) ==
    /\ opc' = "idle"
    /\ otail' = FALSE
    /\ IF tail
       THEN /\ RequeryTail
            /\ last' = [NoCall EXCEPT !.op = "requery", !.changed = WindowFires]
       ELSE /\ queried' = {}
            /\ last' = [NoCall EXCEPT !.op = "drain"]
            /\ UNCHANGED <<list, requery_cnt>>

\* Line 43, ins_item = head.load(); with a null head lines 44-45 leave the
\* loop and the function returns.
DrainLoad(tail, first) ==
    /\ ins_item' = head
    /\ dlog' = IF first
               THEN [start |-> Pending, got |-> {}, n |-> 0, done |-> head = Null,
                     seen |-> IF head = Null THEN Pushed ELSE {}]
               ELSE [dlog EXCEPT !.done = (head = Null),
                                 !.seen = IF head = Null THEN Pushed ELSE {}]
    /\ notes' = IF first THEN NoNotes ELSE notes
    /\ IF head = Null
       THEN DrainReturn(tail)
       ELSE /\ opc' = "cas"
            /\ otail' = tail
            /\ queried' = {}
            /\ last' = IF first
                       THEN [NoCall EXCEPT !.op = IF tail THEN "requery" ELSE "drain"]
                       ELSE last
            /\ UNCHANGED <<list, requery_cnt>>
    /\ UNCHANGED <<head, inext, payload, ppc, catalog, unknown_grfs, merges, freed, removed,
                   stale>>

\* A pop that stores nullptr: the rest of the chain is dropped.
PopTargetNull(item) == Null

\* The value the pop stores into the head: ins_item->next.
PopTarget(item) == inext[item]

\* Line 44, one compare_exchange_weak(ins_item, ins_item->next); when it
\* succeeds, lines 47-60 for the popped record; when it fails, ins_item is
\* the head it found.
DrainCAS ==
    /\ opc = "cas"
    /\ IF head = ins_item
       THEN LET r == InsertDelayed(list, payload[ins_item])
            IN  /\ head' = PopTarget(ins_item)
                /\ list' = r.list
                /\ notes' = [notes EXCEPT !.ui = @ + r.ui, !.host = @ + r.host]
                /\ merges' = [merges EXCEPT ![ins_item] = Min(@ + 1, 2)]
                /\ freed' = freed \cup {ins_item}
                /\ dlog' = [dlog EXCEPT !.start = IF dlog.n = 0 THEN Pending ELSE @,
                                        !.got = @ \cup {ins_item},
                                        !.n = Min(@ + 1, NumProducers + 1)]
                /\ last' = [last EXCEPT !.item = r.item]
                /\ opc' = "load"
                /\ stale' \in Allocations(Len(r.list) > Len(list),
                                          r.list[r.item].connection_string)
                /\ UNCHANGED <<ins_item, otail, requery_cnt, queried>>
       ELSE /\ ins_item' = head
            /\ UNCHANGED <<head, notes, merges, freed, stale>>
            /\ IF head = Null
               THEN /\ DrainReturn(otail)
                    /\ dlog' = [dlog EXCEPT !.done = TRUE, !.seen = Pushed]
               ELSE UNCHANGED <<list, dlog, last, opc, otail, requery_cnt, queried>>
    /\ UNCHANGED <<inext, payload, ppc, catalog, unknown_grfs, removed>>

\* A call of NetworkGameListHandleDelayedInsert on its own.
DrainCall == opc = "idle" /\ DrainLoad(FALSE, TRUE)
\* A drain that returns after its first pop instead of looping.
DrainOnce ==
    /\ opc = "load"
    /\ opc' = "idle"
    /\ otail' = FALSE
    /\ dlog' = [dlog EXCEPT !.done = TRUE, !.seen = Pushed]
    /\ UNCHANGED <<head, inext, payload, ppc, ins_item, list, requery_cnt, catalog,
                   unknown_grfs, merges, freed, notes, queried, last, removed, stale>>

\* The next round of its while (true).
DrainAgain == opc = "load" /\ DrainLoad(otail, FALSE)
\* A call of NetworkGameListRequery.
RequeryCall == opc = "idle" /\ DrainLoad(TRUE, TRUE)

(***************************************************************************)
(* The calls of the owning thread on the game list.  The owning thread     *)
(* makes them between two calls of NetworkGameListRequery.                 *)
(***************************************************************************)
\* A call of NetworkGameListAddItem(cs).
AddItemCall(cs) ==
    /\ opc = "idle"
    /\ LET r == NetworkGameListAddItem(list, cs)
       IN  /\ list' = r.list
           /\ notes' = [NoNotes EXCEPT !.ui = IF r.created THEN 1 ELSE 0]
           /\ last' = [op |-> "add", cs |-> cs, item |-> r.item, changed |-> r.created,
                       again |-> /\ last.op = "add"
                                 /\ ParseConnectionString(last.cs) = ParseConnectionString(cs)]
           /\ stale' \in Allocations(r.created, ParseConnectionString(cs))
    /\ UNCHANGED <<queueVars, opc, requery_cnt, catalog, unknown_grfs, queried, removed>>

\* An entry that carries every kind of state a fresh entry does not.
CarriesState(item) ==
    /\ item.retries # 0
    /\ item.online
    /\ item.manually
    /\ item.info.grfconfig # <<>>

\* An unlink that frees the entry's NewGRF list but leaves the entry linked.
RemoveItemNoUnlink(l, at) ==
    IF at \in 1..Len(l)
    THEN [list |-> [l EXCEPT ![at].info.grfconfig = <<>>], found |-> TRUE]
    ELSE [list |-> l, found |-> FALSE]

\* An unlink that fills the gap with the last entry of the list.
RemoveItemMoveLast(l, at) ==
    IF at \in 1..Len(l)
    THEN [list |-> [j \in 1..(Len(l) - 1) |-> IF j = at THEN l[Len(l)] ELSE l[j]],
          found |-> TRUE]
    ELSE [list |-> l, found |-> FALSE]

\* NetworkGameListRemoveItem(remove), the pointer given as the position of
\* the entry it points to, 0 for a pointer to no entry of the list.
NetworkGameListRemoveItem(l, at) ==
    IF at \in 1..Len(l)
    THEN [list |-> RemoveAt(l, at), found |-> TRUE]
    ELSE [list |-> l, found |-> FALSE]

\* A call of NetworkGameListRemoveItem.
RemoveItemCall(at) ==
    /\ opc = "idle"
    /\ LET r == NetworkGameListRemoveItem(list, at)
       IN  /\ list' = r.list
           /\ notes' = IF r.found THEN [NoNotes EXCEPT !.ui = 1, !.host = 1] ELSE NoNotes
           /\ last' = [op |-> "remove",
                       cs |-> IF at \in 1..Len(list) THEN list[at].connection_string ELSE NoConn,
                       item |-> at, changed |-> r.found, again |-> last.op = "remove"]
           /\ removed' = IF at \in 1..Len(list) /\ CarriesState(list[at])
                         THEN removed \cup {list[at].connection_string}
                         ELSE removed
           /\ stale' = IF r.found THEN Deleted(list[at].connection_string) ELSE stale
    /\ UNCHANGED <<queueVars, opc, requery_cnt, catalog, unknown_grfs, queried>>

\* The position of the entry the held pointer compares equal to in line 104,
\* 0 when the storage it points to holds no entry of the list.
StaleItem ==
    IF stale.at = {} THEN 0 ELSE FindItem(list, CHOOSE k \in stale.at : TRUE)

\* A call of NetworkGameListRemoveItem with the pointer to the entry that was
\* deleted first: a second remove of that entry.
RemoveStaleCall ==
    /\ opc = "idle"
    /\ stale.held
    /\ LET at == StaleItem
           r  == NetworkGameListRemoveItem(list, at)
       IN  /\ list' = r.list
           /\ notes' = IF r.found THEN [NoNotes EXCEPT !.ui = 1, !.host = 1] ELSE NoNotes
           /\ last' = [op |-> "remove_stale",
                       cs |-> IF r.found THEN list[at].connection_string ELSE NoConn,
                       item |-> at, changed |-> r.found, again |-> last.op = "remove_stale"]
           /\ removed' = IF r.found /\ CarriesState(list[at])
                         THEN removed \cup {list[at].connection_string}
                         ELSE removed
           /\ stale' = IF r.found THEN Deleted(list[at].connection_string) ELSE stale
    /\ UNCHANGED <<queueVars, opc, requery_cnt, catalog, unknown_grfs, queried>>

(***************************************************************************)
(* NetworkAfterNewGRFScan.  Every descriptor of the game list carries      *)
(* GCF_COPY, so the assert of line 160 holds.                              *)
(***************************************************************************)
\* Lines 162-177 for one GRFConfig of an item.
ScanGrf(c, cat) ==
    IF ~FindGRFConfig(cat, c.ident)
    THEN [c EXCEPT !.name = FindUnknownGRFName(c.ident), !.status = "GCS_NOT_FOUND"]
    ELSE [c EXCEPT !.filename = CatalogFile(c.ident).filename,
                   !.name = CatalogFile(c.ident).name,
                   !.info = CatalogFile(c.ident).info,
                   !.status = "GCS_UNKNOWN"]

\* Line 157 with its operands exchanged.
ResetCompatibleSwapped(item) ==
    [item EXCEPT !.info.version_compatible = item.info.compatible]

\* Line 157, item->info.compatible = item->info.version_compatible
ResetCompatible(item) ==
    [item EXCEPT !.info.compatible = item.info.version_compatible]

\* A scan that stops at the first GRF it does not find.
ScanItemStopAtMissing(item, cat) ==
    LET reset == ResetCompatible(item)
        grfs  == item.info.grfconfig
        miss  == {k \in 1..Len(grfs) : ~FindGRFConfig(cat, grfs[k].ident)}
        stop  == IF miss = {} THEN Len(grfs) + 1
                 ELSE CHOOSE k \in miss : \A j \in miss : k <= j
    IN  [reset EXCEPT
           !.info.grfconfig = [k \in 1..Len(grfs) |->
                                  IF k <= stop THEN ScanGrf(grfs[k], cat) ELSE grfs[k]],
           !.info.compatible = reset.info.compatible /\ miss = {}]

\* A scan that takes the GRFs it does not find out of the item's list.
ScanItemDropMissing(item, cat) ==
    LET reset == ResetCompatible(item)
        grfs  == item.info.grfconfig
        found == SelectSeq(grfs, LAMBDA c : FindGRFConfig(cat, c.ident))
    IN  [reset EXCEPT
           !.info.grfconfig = [k \in 1..Len(found) |-> ScanGrf(found[k], cat)],
           !.info.compatible = reset.info.compatible /\ Len(found) = Len(grfs)]

\* Lines 156-178 for one item.
ScanItem(item, cat) ==
    LET reset == ResetCompatible(item)
        grfs  == item.info.grfconfig
    IN  [reset EXCEPT
           !.info.grfconfig = [k \in 1..Len(grfs) |-> ScanGrf(grfs[k], cat)],
           !.info.compatible = reset.info.compatible
                               /\ \A k \in 1..Len(grfs) : FindGRFConfig(cat, grfs[k].ident)]

\* The pairs the scan hands to FindUnknownGRFName.
Missing(l, cat) ==
    {id \in GrfIdents :
        /\ ~FindGRFConfig(cat, id)
        /\ \E i \in 1..Len(l) : \E k \in 1..Len(l[i].info.grfconfig) :
               l[i].info.grfconfig[k].ident = id}

\* A call of NetworkAfterNewGRFScan.
AfterNewGRFScanCall ==
    /\ opc = "idle"
    /\ list' = [i \in 1..Len(list) |-> ScanItem(list[i], catalog)]
    /\ unknown_grfs' = unknown_grfs \cup Missing(list, catalog)
    /\ notes' = [NoNotes EXCEPT !.inval = 1]
    /\ last' = [NoCall EXCEPT !.op = "scan", !.changed = (list' # list),
                              !.again = (last.op = "scan")]
    /\ UNCHANGED <<queueVars, opc, requery_cnt, catalog, queried, removed, stale>>

(***************************************************************************)
(* What the rest of the program does to the game list and the catalog.     *)
(***************************************************************************)
\* The NewGRF lists a server can report.
RECURSIVE GrfLists(_)
GrfLists(n) ==
    IF n = 0 THEN {<<>>}
    ELSE LET shorter == GrfLists(n - 1)
         IN  shorter \cup {Append(g, ReportedGrf(id, "GCS_UNKNOWN")) :
                              g \in shorter, id \in GrfIdents}

\* A server's answer arrives for the entry at position at: its info is
\* replaced and the entry is online.
ServerResponse(at, info) ==
    /\ opc = "idle"
    /\ at \in 1..Len(list)
    /\ list' = [list EXCEPT ![at].info = info, ![at].online = TRUE,
                            ![at].never_online = FALSE]
    /\ notes' = NoNotes
    /\ last' = [NoCall EXCEPT !.op = "response", !.item = at]
    /\ UNCHANGED <<queueVars, opc, requery_cnt, catalog, unknown_grfs, queried, removed,
                   stale>>

\* A rescan of the local NewGRF files leaves another catalog.
CatalogChange(cat) ==
    /\ opc = "idle"
    /\ cat # catalog
    /\ catalog' = cat
    /\ notes' = NoNotes
    /\ last' = [NoCall EXCEPT !.op = "rescan"]
    /\ UNCHANGED <<queueVars, opc, list, requery_cnt, unknown_grfs, queried, removed, stale>>


(***************************************************************************)
(* The initial states: nothing pending, an empty game list.                *)
(***************************************************************************)
\* The record producer call p allocates before it calls NetworkGameListAddItemDelayed.
QueueRecord(p) ==
    [connection_string |-> IF p % 2 = 1
                           THEN [host |-> "10.0.0.2", port |-> NoPort]
                           ELSE [host |-> "10.0.0.1", port |-> NETWORK_DEFAULT_PORT],
     server_name |-> IF p = 1 THEN NoName ELSE IF p % 2 = 0 THEN "A" ELSE "B",
     manually |-> (p = 2)]

\* The state after cnt calls of NetworkGameListRequery on an empty game list
\* with nothing pushed, the producers holding the records recs.
InitWith(cnt, recs) ==
    /\ head = Null
    /\ inext = [p \in RecIds |-> Null]
    /\ payload = recs
    /\ ppc = [p \in RecIds |-> "idle"]
    /\ opc = "idle"
    /\ otail = FALSE
    /\ ins_item = Null
    /\ list = <<>>
    /\ requery_cnt = cnt
    /\ catalog = {}
    /\ unknown_grfs = {}
    /\ merges = [p \in RecIds |-> 0]
    /\ freed = {}
    /\ dlog = NoDrain
    /\ notes = NoNotes
    /\ queried = {}
    /\ last = NoCall
    /\ removed = {}
    /\ stale = NoStale

\* The same with the records of QueueRecord; cnt = 0 is the state at program start.
InitAfter(cnt) == InitWith(cnt, [p \in RecIds |-> QueueRecord(p)])

(***************************************************************************)
(* SpecQueue: producers push while the owning thread drains.               *)
(***************************************************************************)
InitQueue == InitAfter(0)

NextQueue ==
    \/ \E p \in RecIds : PushLoad(p)
    \/ \E p \in RecIds : PushCAS(p)
    \/ DrainCall
    \/ DrainAgain
    \/ DrainCAS

SpecQueue == InitQueue /\ [][NextQueue]_vars

\* The owning thread keeps running its game loop, and a compare-and-swap
\* that is retried for ever does not fail for ever once the head stops moving.
SpecQueueFair ==
    /\ SpecQueue
    /\ WF_vars(DrainCall)
    /\ WF_vars(DrainAgain)
    /\ WF_vars(DrainCAS)

\* A drain on its own has returned; the records pending when it started were
\* all the records pushed so far, and no push is under way.
C1_DrainAfterPushes ==
    /\ opc = "idle"
    /\ last.op = "drain"
    /\ dlog.start = Pushed
    /\ \A p \in RecIds : ppc[p] # "cas"

(***************************************************************************)
(* C1.  Queue completeness: when the pushes of N producers have all        *)
(* completed before a drain starts, and no other push is under way, that   *)
(* one drain performs exactly N merges, one for each pushed record and     *)
(* none twice, whatever the interleaving of the producers' steps was, and  *)
(* the pending list is empty afterwards.                                   *)
(***************************************************************************)
C1_QueueCompleteness ==
    C1_DrainAfterPushes =>
        /\ dlog.n = Cardinality(Pushed)
        /\ dlog.got = Pushed
        /\ \A r \in Pushed : merges[r] = 1
        /\ head = Null

\* All producers pushed, some push had to retry, and one drain took them all.
C1_Witness ==
    /\ C1_DrainAfterPushes
    /\ Pushed = RecIds
    /\ dlog.n = NumProducers
    /\ \E p \in RecIds : inext[p] # Null

\* Every record whose push completed is pending and unmerged, or merged once
\* and freed.
C2_Accounted ==
    \A r \in Pushed :
        \/ r \in Pending /\ merges[r] = 0 /\ r \notin freed
        \/ r \notin Pending /\ merges[r] = 1 /\ r \in freed

(***************************************************************************)
(* C2.  No record is lost or merged twice when pushes race with a drain:   *)
(* a record whose push completed is either still reachable from the        *)
(* pending head and not merged, or it has been merged and freed exactly    *)
(* once; and it is eventually merged, by the running drain or a later one. *)
(***************************************************************************)
C2_NoLossNoDuplicate ==
    /\ []C2_Accounted
    /\ \A r \in RecIds : (ppc[r] = "done") ~> (merges[r] = 1)

\* A drain is between two pops; it has merged a record whose push completed
\* after its first pop, and another record has been pushed since and is pending.
C2_Witness ==
    /\ opc = "load"
    /\ dlog.got \ dlog.start # {}
    /\ Pending # {}
    /\ \A r \in dlog.got : merges[r] = 1

(***************************************************************************)
(* C10.  The drain and the records it takes.                               *)
(* As claimed: the drain takes the pending set in one exchange and merges  *)
(* only the records pending at that moment.                                *)
(***************************************************************************)
C10_SingleExchange ==
    /\ dlog.got \subseteq dlog.start
    /\ dlog.n <= 1

(***************************************************************************)
(* C10 as the code has it: every exchange pops one record, the head is     *)
(* replaced by that record's successor; the drain repeats until it reads   *)
(* an empty head, so when it returns it has merged the records pending at  *)
(* its first pop and every record whose push completed before that last    *)
(* read; a push that completes later stays pending for the next drain.     *)
(***************************************************************************)
C10_PopsUntilEmpty ==
    /\ dlog.n = Cardinality(dlog.got)
    /\ dlog.done => /\ dlog.start \subseteq dlog.got
                    /\ dlog.seen \subseteq freed
    /\ opc = "idle" => \A r \in Pushed \ freed : r \in Pending

\* A finished drain that merged a record pushed after its first pop.
C10_Witness ==
    /\ opc = "idle"
    /\ dlog.done
    /\ dlog.n >= 2
    /\ dlog.got \ dlog.start # {}

(***************************************************************************)
(* Spec: every call of the owning thread, with producers pushing.  The     *)
(* game loop has run up to the last MaxLoops calls before a requery        *)
(* window, and runs to the end of that window.                             *)
(***************************************************************************)
\* The infos servers answer with here.
SpecInfos ==
    {[server_name |-> "A", grfconfig |-> g, version_compatible |-> TRUE, compatible |-> TRUE] :
        g \in {<<ReportedGrf([grfid |-> 1, md5sum |-> "X"], "GCS_UNKNOWN")>>}}
SpecPushers == {2}

Init == InitAfter(REQUERY_EVERY_X_GAMELOOPS - MaxLoops)

LoopsLeft == requery_cnt >= REQUERY_EVERY_X_GAMELOOPS - MaxLoops

Next ==
    \/ \E cs \in ConnStrings : AddItemCall(cs)
    \/ \E at \in 0..Len(list) : RemoveItemCall(at)
    \/ LoopsLeft /\ RequeryCall
    \/ DrainAgain
    \/ DrainCAS
    \/ \E p \in SpecPushers : PushLoad(p)
    \/ \E p \in SpecPushers : PushCAS(p)
    \/ AfterNewGRFScanCall
    \/ \E at \in 1..Len(list) : \E info \in SpecInfos : ServerResponse(at, info)

Spec == Init /\ [][Next]_vars

(***************************************************************************)
(* C3.  Address uniqueness: in every reachable state no two entries of     *)
(* the game list have the same connection string, and every connection     *)
(* string is in resolved form.                                             *)
(***************************************************************************)
C3_UniqueAddress ==
    /\ \A i, j \in 1..Len(list) :
          i # j => list[i].connection_string # list[j].connection_string
    /\ \A i \in 1..Len(list) :
          ParseConnectionString(list[i].connection_string) = list[i].connection_string

\* Two entries, and an add that named one of them without its port.
C3_Witness ==
    /\ Len(list) = 2
    /\ last.op = "add"
    /\ ~last.changed
    /\ last.cs.port = NoPort

\* What a call of NetworkGameListAddItem(cs) does to the list, its return
\* value and the UI notification.
C4_AddStep(cs) ==
    LET key == ParseConnectionString(cs)
    IN  IF key \in Keys(list)
        THEN /\ list' = list
             /\ notes'.ui = 0
             /\ list[last'.item].connection_string = key
             /\ (last.op = "add" /\ ParseConnectionString(last.cs) = key)
                   => last'.item = last.item
        ELSE /\ Len(list') = Len(list) + 1
             /\ SubSeq(list', 1, Len(list)) = list
             /\ list'[last'.item].connection_string = key
             /\ notes'.ui = 1

(***************************************************************************)
(* C4.  Idempotent add: an add of an absent key appends exactly one entry  *)
(* with that key, returns it and raises the UI notification; an add of a   *)
(* present key returns the entry that has the key, changes neither the     *)
(* list nor any entry and raises no notification; so two adds in a row     *)
(* that resolve to the same key return the same entry.                     *)
(***************************************************************************)
C4_IdempotentAdd == [][\A cs \in ConnStrings : AddItemCall(cs) => C4_AddStep(cs)]_vars

\* The second of two adds in a row whose strings differ and resolve to the
\* same key, the first of which made the entry.
C4_Witness ==
    /\ last.op = "add"
    /\ last.again
    /\ ~last.changed
    /\ notes.ui = 0
    /\ list[last.item].connection_string # last.cs
    /\ list[last.item] = NewNetworkGameList(ParseConnectionString(last.cs))

\* What a remove of the entry at position at, and an add of an absent key,
\* leave behind.
C9_RemoveStep(at) ==
    /\ list[at].connection_string \notin Keys(list')
    /\ Len(list') = Len(list) - 1
    /\ \A i \in 1..Len(list) : i # at => \E j \in 1..Len(list') : list'[j] = list[i]

C9_AddStep(cs) ==
    ParseConnectionString(cs) \notin Keys(list) =>
        LET new == list'[Len(list')]
        IN  /\ Len(list') = Len(list) + 1
            /\ new.connection_string = ParseConnectionString(cs)
            /\ new.retries = 0
            /\ ~new.online
            /\ ~new.manually
            /\ new.info.grfconfig = <<>>

(***************************************************************************)
(* C9.  Removal clears dependent state: a remove of a present entry E      *)
(* leaves a list without E's key and with every other entry; and an add    *)
(* of an absent key, E's former key included, appends an entry with        *)
(* retries 0, online false, manually false and an empty NewGRF list.       *)
(***************************************************************************)
C9_RemovalClears ==
    [][/\ \A at \in 1..Len(list) : RemoveItemCall(at) => C9_RemoveStep(at)
       /\ \A cs \in ConnStrings : AddItemCall(cs) => C9_AddStep(cs)]_vars

\* An entry that had been queried, was online, manually added and had a
\* NewGRF list was removed, another entry stayed, and an add with the
\* removed entry's address has just made a new entry.
C9_Witness ==
    /\ last.op = "add"
    /\ last.changed
    /\ ParseConnectionString(last.cs) \in removed
    /\ Len(list) >= 2
    /\ list[last.item].retries = 0
    /\ list[last.item].info.grfconfig = <<>>

(***************************************************************************)
(* SpecCadence: the requery scheduler over many windows.  One server is    *)
(* added, answers or not, is removed and added again, while the game loop  *)
(* runs without bound; nothing is pushed.                                  *)
(***************************************************************************)
CadenceConn == [host |-> "10.0.0.1", port |-> NoPort]

InitCadence == InitAfter(0)

NextCadence ==
    \/ AddItemCall(CadenceConn)
    \/ \E at \in 1..Len(list) : RemoveItemCall(at)
    \/ RequeryCall
    \/ \E at \in 1..Len(list) : \E info \in SpecInfos : ServerResponse(at, info)

SpecCadence == InitCadence /\ [][NextCadence]_vars

\* The state right after a call of NetworkGameListRequery whose window fired.
WindowFired == last.op = "requery" /\ last.changed

(***************************************************************************)
(* C5.  Retry cadence as claimed: an entry made with retries 0 that has    *)
(* never been online is queried in each of its first 10 windows, in none   *)
(* of the windows 11..49, and in window 50, where retries is reset to 0    *)
(* and the pattern starts again.  win is the number of the window that     *)
(* just fired, counted from the entry's creation, modulo 50.               *)
(***************************************************************************)
C5_RetryCadence ==
    WindowFired =>
        \A i \in 1..Len(list) :
            list[i].never_online =>
                /\ (list[i].connection_string \in queried)
                      <=> (list[i].win \in 1..MAX_GAME_LIST_REQUERY_COUNT \/ list[i].win = 0)
                /\ list[i].win = 0 => list[i].retries = 0

(***************************************************************************)
(* C6.  Full refresh reaches everyone: in the window in which an entry's   *)
(* retries reaches 50 the entry is queried, online or not, and its retries *)
(* is 0 afterwards; no entry sees 50 windows in a row without a query; an  *)
(* online entry is queried in that window and in no other, and that        *)
(* window comes once every 50 windows.                                     *)
(***************************************************************************)
C6_FullRefresh ==
    /\ \A i \in 1..Len(list) :
          /\ list[i].quiet < REFRESH_GAMEINFO_X_REQUERIES
          /\ list[i].retries = list[i].win
    /\ WindowFired =>
          \A i \in 1..Len(list) :
              /\ list[i].win = 0 =>
                    /\ list[i].connection_string \in queried
                    /\ list[i].retries = 0
              /\ list[i].online =>
                    ((list[i].connection_string \in queried) <=> list[i].win = 0)

\* The fiftieth window of an entry that is online has just fired.
C6_Witness ==
    /\ WindowFired
    /\ Len(list) = 1
    /\ list[1].online
    /\ list[1].win = 0
    /\ list[1].connection_string \in queried

(***************************************************************************)
(* SpecReconcile: servers answer with NewGRF lists, the local catalog      *)
(* changes, and NetworkAfterNewGRFScan runs.  The first entry of the game  *)
(* list gets every answer, the others one fixed answer.                    *)
(***************************************************************************)
ReconcileInfos(at) ==
    IF at = 1
    THEN {[server_name |-> "A", grfconfig |-> g,
           version_compatible |-> v, compatible |-> v] :
             g \in GrfLists(MaxGrfs), v \in BOOLEAN}
    ELSE {[server_name |-> "B",
           grfconfig |-> <<ReportedGrf([grfid |-> 1, md5sum |-> "X"], "GCS_UNKNOWN")>>,
           version_compatible |-> TRUE, compatible |-> FALSE]}

InitReconcile == InitAfter(0)

NextReconcile ==
    \/ \E h \in Hosts : AddItemCall([host |-> h, port |-> NoPort])
    \/ \E at \in 1..Len(list) : \E info \in ReconcileInfos(at) : ServerResponse(at, info)
    \/ \E cat \in SUBSET GrfIdents : CatalogChange(cat)
    \/ AfterNewGRFScanCall

SpecReconcile == InitReconcile /\ [][NextReconcile]_vars

Grfs(i) == list[i].info.grfconfig
Matched(i) == {k \in 1..Len(Grfs(i)) : Grfs(i)[k].ident \in catalog}

(***************************************************************************)
(* C7.  NetworkAfterNewGRFScan is idempotent for a fixed catalog: a scan   *)
(* that follows a scan, with no other call and no catalog change between   *)
(* the two, changes no field of any entry.                                 *)
(***************************************************************************)
C7_ScanIdempotent == (last.op = "scan" /\ last.again) => ~last.changed

\* A second scan in a row over an entry with a matched and an unmatched GRF.
C7_Witness ==
    /\ last.op = "scan"
    /\ last.again
    /\ Len(list) = 2
    /\ Matched(1) # {}
    /\ Matched(1) # 1..Len(Grfs(1))
    /\ list[1].info.version_compatible

(***************************************************************************)
(* C8.  Result of NetworkAfterNewGRFScan: afterwards every entry is        *)
(* compatible exactly when it is version_compatible and each of its GRFs   *)
(* has an exact (grfid, md5sum) match in the catalog; a GRF without a      *)
(* match has status GCS_NOT_FOUND, a GRF with one has status GCS_UNKNOWN   *)
(* and the catalog's name and filename; an unmatched GRF stops neither     *)
(* the GRFs after it nor the entries after it from being processed.        *)
(***************************************************************************)
C8_ScanResult ==
    last.op = "scan" =>
        \A i \in 1..Len(list) :
            /\ list[i].info.compatible
                  <=> (list[i].info.version_compatible /\ Matched(i) = 1..Len(Grfs(i)))
            /\ \A k \in 1..Len(Grfs(i)) :
                  IF k \in Matched(i)
                  THEN /\ Grfs(i)[k].status = "GCS_UNKNOWN"
                       /\ Grfs(i)[k].name = CatalogFile(Grfs(i)[k].ident).name
                       /\ Grfs(i)[k].filename = CatalogFile(Grfs(i)[k].ident).filename
                  ELSE Grfs(i)[k].status = "GCS_NOT_FOUND"

\* A scan over two entries: the first starts with an unmatched GRF followed
\* by a matched one, the second is compatible.
C8_Witness ==
    /\ last.op = "scan"
    /\ last.changed
    /\ Len(list) = 2
    /\ Len(Grfs(1)) = 2
    /\ Matched(1) = {2}
    /\ list[1].info.version_compatible
    /\ ~list[1].info.compatible
    /\ list[2].info.compatible

(***************************************************************************)
(* SpecRegistry: the game list with three servers.  Entries are added and  *)
(* removed, a caller removes the first deleted entry once more, and the    *)
(* game loop, a producer and the NewGRF scan run as in Spec.               *)
(***************************************************************************)
RegistryConns == {[host |-> h, port |-> NoPort] : h \in Hosts \cup {"10.0.0.3"}}

InitRegistry == InitAfter(REQUERY_EVERY_X_GAMELOOPS - MaxLoops)

NextRegistry ==
    \/ \E cs \in RegistryConns : AddItemCall(cs)
    \/ \E at \in 0..Len(list) : RemoveItemCall(at)
    \/ RemoveStaleCall
    \/ LoopsLeft /\ RequeryCall
    \/ DrainAgain
    \/ DrainCAS
    \/ \E p \in SpecPushers : PushLoad(p)
    \/ \E p \in SpecPushers : PushCAS(p)
    \/ AfterNewGRFScanCall

SpecRegistry == InitRegistry /\ [][NextRegistry]_vars

\* A remove that changed nothing and raised no notification.
C11_SilentNoOp == list' = list /\ notes' = NoNotes

(***************************************************************************)
(* C11.  A remove of an entry that is not in the game list, because it was *)
(* never added or because it has been removed before, is a silent no-op:   *)
(* the list, its order and every entry are unchanged and neither           *)
(* NetworkRebuildHostList nor UpdateNetworkGameWindow is called; both are  *)
(* called when the entry was in the list and got unlinked.                 *)
(***************************************************************************)
C11_AbsentRemoveNoOp ==
    [][/\ RemoveItemCall(0) => C11_SilentNoOp
       /\ RemoveStaleCall => C11_SilentNoOp
       /\ \A at \in 1..Len(list) :
             RemoveItemCall(at) => /\ Len(list') = Len(list) - 1
                                   /\ notes'.host = 1
                                   /\ notes'.ui = 1]_vars

\* What a step leaves of the order of the game list: two entries that are in
\* the list before and after it are in the same order, and when the list
\* grows the entries it had keep their places.
C12_OrderKept ==
    /\ \A i, j \in 1..Len(list) :
          (/\ i < j
           /\ list[i].connection_string \in Keys(list')
           /\ list[j].connection_string \in Keys(list'))
          => FindItem(list', list[i].connection_string)
                < FindItem(list', list[j].connection_string)
    /\ Len(list') > Len(list) =>
          /\ Len(list') = Len(list) + 1
          /\ \A i \in 1..Len(list) :
                list'[i].connection_string = list[i].connection_string

(***************************************************************************)
(* C12.  Iteration order is insertion order and is stable: an add of an    *)
(* absent key, by NetworkGameListAddItem or by the drain, puts the new     *)
(* entry after all existing entries, and no step of any operation changes  *)
(* the relative order of two entries that are in the list before and       *)
(* after it.                                                               *)
(***************************************************************************)
C12_StableOrder == [][C12_OrderKept]_vars

\* The first of three entries has just been removed; the two after it stay.
C12_Witness ==
    /\ last.op = "remove"
    /\ last.changed
    /\ last.item = 1
    /\ Len(list) = 2

(***************************************************************************)
(* SpecMerge: what the drain does to the entries.  Two producers push one  *)
(* record each, with any connection string, name and manually flag of      *)
(* MergeRecords; the owning thread drains, and servers answer in between,  *)
(* with or without a name.                                                 *)
(***************************************************************************)
MergePushers == {1, 2}

MergeRecords ==
    [connection_string : {[host |-> h, port |-> NoPort] : h \in Hosts},
     server_name : {NoName, "A", "B"},
     manually : BOOLEAN]

MergeInfos ==
    {[server_name |-> n,
      grfconfig |-> <<ReportedGrf([grfid |-> 1, md5sum |-> "X"], "GCS_UNKNOWN")>>,
      version_compatible |-> TRUE, compatible |-> TRUE] : n \in {NoName, "C"}}

InitMerge ==
    \E f \in [MergePushers -> MergeRecords] :
        InitWith(0, [p \in RecIds |-> IF p \in MergePushers THEN f[p] ELSE QueueRecord(p)])

NextMerge ==
    \/ \E p \in MergePushers : PushLoad(p)
    \/ \E p \in MergePushers : PushCAS(p)
    \/ DrainCall
    \/ DrainAgain
    \/ DrainCAS
    \/ \E at \in 1..Len(list) : \E info \in MergeInfos : ServerResponse(at, info)

SpecMerge == InitMerge /\ [][NextMerge]_vars

\* A step of the drain that pops a record and merges it.
MergeStep == DrainCAS /\ head = ins_item

\* The record being merged, the entry it is merged into as it was before the
\* step (a new entry when the list had none for the key) and as it is after.
MergedRecord == payload[ins_item]
MergedKey == ParseConnectionString(MergedRecord.connection_string)
EntryBefore ==
    IF MergedKey \in Keys(list)
    THEN list[FindItem(list, MergedKey)]
    ELSE NewNetworkGameList(MergedKey)
EntryAfter == list'[FindItem(list', MergedKey)]

(***************************************************************************)
(* C13.  Merge rule for the name: a merge into an entry whose name was     *)
(* empty, of a record that carries a name, leaves the entry with the       *)
(* record's name, an empty NewGRF list and online false; a merge into an   *)
(* entry whose name was not empty leaves its name, its NewGRF list and its *)
(* online flag as they were.                                               *)
(***************************************************************************)
C13_MergeName ==
    [][MergeStep =>
         IF EntryBefore.info.server_name = NoName
         THEN MergedRecord.server_name # NoName =>
                 /\ EntryAfter.info.server_name = MergedRecord.server_name
                 /\ EntryAfter.info.grfconfig = <<>>
                 /\ ~EntryAfter.online
         ELSE /\ EntryAfter.info.server_name = EntryBefore.info.server_name
              /\ EntryAfter.info.grfconfig = EntryBefore.info.grfconfig
              /\ EntryAfter.online = EntryBefore.online]_vars

\* A named record has just been merged into an entry that had answered
\* without a name: the entry has the record's name, no NewGRF list and is
\* not online any more.
C13_Witness ==
    /\ opc = "load"
    /\ last.item \in 1..Len(list)
    /\ list[last.item].info.server_name \in {"A", "B"}
    /\ ~list[last.item].never_online
    /\ ~list[last.item].online
    /\ list[last.item].info.grfconfig = <<>>

(***************************************************************************)
(* C14.  manually on merge: after a merge the entry's manually is its      *)
(* previous value or-ed with the record's, so no merge turns it from true  *)
(* to false; and every merge in which it becomes true calls                *)
(* NetworkRebuildHostList.                                                 *)
(***************************************************************************)
C14_ManuallyOr ==
    [][MergeStep =>
         /\ EntryAfter.manually = (EntryBefore.manually \/ MergedRecord.manually)
         /\ EntryBefore.manually => EntryAfter.manually
         /\ (~EntryBefore.manually /\ EntryAfter.manually) => notes'.host = notes.host + 1]_vars

\* One drain merged two records into one entry, the manually added one
\* first: the entry is still manually added after the other.
C14_Witness ==
    /\ opc = "load"
    /\ dlog.n = 2
    /\ Len(list) = 1
    /\ list[1].manually
    /\ notes.host = 2
    /\ \E r \in dlog.got : ~payload[r].manually

\* What the claim compares of the entries, whatever their order in the list.
MergedEntries(l) ==
    {[connection_string |-> l[i].connection_string,
      server_name |-> l[i].info.server_name,
      online |-> l[i].online,
      manually |-> l[i].manually,
      grfconfig |-> l[i].info.grfconfig] : i \in 1..Len(l)}

\* The list after the records a and b were popped and merged in this order
\* into an empty list.
MergedInOrder(a, b) == InsertDelayed(InsertDelayed(<<>>, a).list, b).list

(***************************************************************************)
(* C18.  Merge does not depend on push order: when one drain has merged    *)
(* both records into the empty list, the entries are the ones either order *)
(* of the two records gives; and merging a record a second time changes    *)
(* nothing.                                                                *)
(***************************************************************************)
C18_OrderIndependent ==
    /\ (opc = "idle" /\ last.op = "drain" /\ dlog.n = 2 /\ freed = dlog.got) =>
          /\ MergedEntries(list) = MergedEntries(MergedInOrder(payload[1], payload[2]))
          /\ MergedEntries(list) = MergedEntries(MergedInOrder(payload[2], payload[1]))
    /\ \A rec \in MergeRecords :
          LET once == InsertDelayed(list, rec).list
          IN  InsertDelayed(once, rec).list = once

(***************************************************************************)
(* SpecTick: the game loop without bound, with everything else the owning  *)
(* thread does to the game list between two calls of                       *)
(* NetworkGameListRequery, and a producer pushing; no server answers.      *)
(***************************************************************************)
InitTick == InitAfter(0)

NextTick ==
    \/ AddItemCall(CadenceConn)
    \/ \E at \in 1..Len(list) : RemoveItemCall(at)
    \/ RequeryCall
    \/ DrainAgain
    \/ DrainCAS
    \/ \E p \in SpecPushers : PushLoad(p)
    \/ \E p \in SpecPushers : PushCAS(p)
    \/ AfterNewGRFScanCall

SpecTick == InitTick /\ [][NextTick]_vars

\* A step in which a call of NetworkGameListRequery returns: no other step
\* writes requery_cnt.
RequeryReturns == requery_cnt' # requery_cnt

\* What a returning call of NetworkGameListRequery has done after its drain.
C15_ReturnStep ==
    IF requery_cnt = REQUERY_EVERY_X_GAMELOOPS - 1
    THEN requery_cnt' = 0
    ELSE /\ requery_cnt' = requery_cnt + 1
         /\ queried' = {}
         /\ Len(list') = Len(list)
         /\ \A i \in 1..Len(list) : list'[i].retries = list[i].retries

(***************************************************************************)
(* C15.  Window gating: every call of NetworkGameListRequery drains the    *)
(* delayed insertion list before anything else, also when no window        *)
(* fires; requery_cnt starts at 0, goes up by one in each call and is set  *)
(* back to 0 by the call that finds it at 59, so the window fires in every *)
(* 60th call; a call in between issues no query and changes no retries;    *)
(* no step of anything else issues a query; requery_cnt is within 0..59    *)
(* between calls and 0 after a call that fired.                            *)
(***************************************************************************)
C15_WindowGating ==
    /\ [](/\ requery_cnt \in 0..(REQUERY_EVERY_X_GAMELOOPS - 1)
          /\ (opc = "idle" /\ last.op = "requery") =>
                /\ dlog.done
                /\ dlog.start \subseteq freed
                /\ last.changed => requery_cnt = 0
                /\ ~last.changed => queried = {})
    /\ [][/\ RequeryReturns => C15_ReturnStep
          /\ (queried' # queried /\ queried' # {}) =>
                (requery_cnt = REQUERY_EVERY_X_GAMELOOPS - 1 /\ requery_cnt' = 0)]_vars

\* A call whose window did not fire has merged a pushed record, after two
\* windows had fired for the entry.
C15_Witness ==
    /\ opc = "idle"
    /\ last.op = "requery"
    /\ ~last.changed
    /\ requery_cnt > 0
    /\ dlog.n = 1
    /\ Len(list) = 1
    /\ list[1].retries = 2
    /\ queried = {}

\* What a firing window does to the retries of an item.
C16_Counted(i) ==
    LET r == list[i].retries + 1
    IN  /\ list'[i].retries = IF r = REFRESH_GAMEINFO_X_REQUERIES THEN 0 ELSE r
        /\ (list[i].online /\ r < REFRESH_GAMEINFO_X_REQUERIES)
              => list[i].connection_string \notin queried'
        /\ r = REFRESH_GAMEINFO_X_REQUERIES => list[i].connection_string \in queried'

(***************************************************************************)
(* C16.  Online flip inside a cycle: while an entry is online and its      *)
(* retries is below 50 a firing window issues no query for it, but its     *)
(* retries goes up by one in every window, online or not; so retries is    *)
(* always the number of windows since the entry was made, modulo 50, and   *)
(* the full refresh comes in the window it would have come in had the      *)
(* entry stayed offline.                                                   *)
(***************************************************************************)
C16_OnlineFlip ==
    /\ [](\A i \in 1..Len(list) : list[i].retries = list[i].win)
    /\ [][(RequeryCall /\ WindowFires) => \A i \in 1..Len(list) : C16_Counted(i)]_vars

\* The fifth window of an entry has fired; the entry was queried in the
\* first three, went online, and was skipped in the last two.
C16_Witness ==
    /\ WindowFired
    /\ Len(list) = 1
    /\ list[1].online
    /\ list[1].retries = 5
    /\ list[1].quiet = 2
    /\ queried = {}

\* What a step does to the retries of the entries that stay in the list.
C17_RetryStep ==
    \A i \in 1..Len(list) :
        LET key == list[i].connection_string
            r   == list[i].retries + 1
        IN  key \in Keys(list') =>
                LET after == list'[FindItem(list', key)].retries
                IN  IF RequeryReturns /\ requery_cnt' = 0
                    THEN \/ r < REFRESH_GAMEINFO_X_REQUERIES /\ after = r
                         \/ /\ r = REFRESH_GAMEINFO_X_REQUERIES
                            /\ after = 0
                            /\ key \in queried'
                    ELSE after = list[i].retries

SpecQueueProgress ==
    /\ SpecQueueFair
    /\ \A p \in RecIds : WF_vars(PushCAS(p))

\* A compare-and-swap that fails found a head that is not the value its
\* thread read last; a push that succeeds leaves its record at the head.
C19_CASStep ==
    /\ \A p \in RecIds :
          PushCAS(p) => IF ppc'[p] = "done"
                        THEN head' = p /\ inext'[p] = head
                        ELSE head # inext[p] /\ inext'[p] = head
    /\ (DrainCAS /\ merges' = merges) => (head # ins_item /\ ins_item' = head)

(***************************************************************************)
(* C19.  Progress of push and drain: a compare-and-swap of a push or of a  *)
(* pop fails only when the head is no longer what the thread read, which   *)
(* takes a push or a pop in between; with finitely many pushes and fair    *)
(* scheduling every push that was started completes with its record on    *)
(* the pending list, and every drain returns, having read an empty head.   *)
(* A push has no other outcome.                                            *)
(***************************************************************************)
C19_Progress ==
    /\ [][C19_CASStep]_vars
    /\ [](\A p \in RecIds : ppc[p] \in {"idle", "cas", "done"})
    /\ []((opc = "idle" /\ last.op = "drain") => dlog.done)
    /\ \A p \in RecIds : (ppc[p] = "cas") ~> (ppc[p] = "done")
    /\ (opc # "idle") ~> (opc = "idle")

\* Contention: a producer and the drain both hold a value of the head that
\* another push has replaced since.
C19_Witness ==
    /\ opc = "cas"
    /\ ins_item # head
    /\ \E p \in RecIds : ppc[p] = "cas" /\ inext[p] # head
    /\ Pushed # {}

(***************************************************************************)
(* SpecFrame: NetworkAfterNewGRFScan in the middle of everything else.     *)
(* Two servers are added and answer with a list of two NewGRFs, the local  *)
(* catalog holds the first of the two or nothing, a producer pushes, and   *)
(* the game loop runs to the end of a requery window as in Spec.           *)
(***************************************************************************)
FrameConns == {[host |-> h, port |-> NoPort] : h \in Hosts}

FrameInfos ==
    {[server_name |-> "A",
      grfconfig |-> <<ReportedGrf([grfid |-> 1, md5sum |-> "X"], "GCS_UNKNOWN"),
                      ReportedGrf([grfid |-> 1, md5sum |-> "Y"], "GCS_UNKNOWN")>>,
      version_compatible |-> TRUE, compatible |-> TRUE]}

FrameCatalogs == {{}, {[grfid |-> 1, md5sum |-> "X"]}}

InitFrame == InitAfter(REQUERY_EVERY_X_GAMELOOPS - MaxLoops)

NextFrame ==
    \/ \E cs \in FrameConns : AddItemCall(cs)
    \/ LoopsLeft /\ RequeryCall
    \/ DrainAgain
    \/ DrainCAS
    \/ \E p \in SpecPushers : PushLoad(p)
    \/ \E p \in SpecPushers : PushCAS(p)
    \/ \E at \in 1..Len(list) : \E info \in FrameInfos : ServerResponse(at, info)
    \/ \E cat \in FrameCatalogs : CatalogChange(cat)
    \/ AfterNewGRFScanCall

SpecFrame == InitFrame /\ [][NextFrame]_vars

\* Everything of an item but its compatible flag and the status, name,
\* filename and info of its GRFs.
C20_Kept(item) ==
    [item EXCEPT
       !.info.compatible = FALSE,
       !.info.grfconfig = [k \in 1..Len(item.info.grfconfig) |->
                              [ident |-> item.info.grfconfig[k].ident]]]

(***************************************************************************)
(* C20.  Frame of NetworkAfterNewGRFScan: a call changes only the          *)
(* compatible flag of entries and the status, name, filename and info of   *)
(* their GRFs.  The entries and their order, every connection string,      *)
(* version_compatible, online, manually and retries, the grfid and md5sum  *)
(* of every GRF and the length of every GRF list, the delayed insertion    *)
(* list and requery_cnt are as before, and InvalidateWindowClassesData is  *)
(* called once, whatever the number of entries.                            *)
(***************************************************************************)
C20_ScanFrame ==
    [][AfterNewGRFScanCall =>
         /\ Len(list') = Len(list)
         /\ \A i \in 1..Len(list) : C20_Kept(list'[i]) = C20_Kept(list[i])
         /\ head' = head
         /\ inext' = inext
         /\ payload' = payload
         /\ Pending' = Pending
         /\ requery_cnt' = requery_cnt
         /\ notes' = [ui |-> 0, host |-> 0, inval |-> 1]]_vars

\* A scan has just changed two entries while a record was pending: one entry
\* has been requeried, is online and has a GRF the catalog holds and one it
\* does not.
C20_Witness ==
    /\ last.op = "scan"
    /\ last.changed
    /\ head # Null
    /\ Len(list) = 2
    /\ \E i \in 1..2 :
          /\ list[i].online
          /\ list[i].retries > 0
          /\ Len(Grfs(i)) = 2
          /\ Matched(i) = {1}
          /\ Grfs(i)[1].status = "GCS_UNKNOWN"
          /\ Grfs(i)[2].status = "GCS_NOT_FOUND"

====
